---- MODULE Spec2Model ----
(***************************************************************************)
(* The tabular data engine of datadash: processFile / analyzeSheetData /   *)
(* analyzeColumn (dataProcessor), suggestJoins, and executeDataModel       *)
(* (joinEngine), modelled over a heap of row objects so that aliasing and  *)
(* in-place writes are visible.                                            *)
(***************************************************************************)
EXTENDS Integers, Sequences, FiniteSets, TLC

VARIABLES
    workbook,           \* the parsed workbook: sequence of [name, rows] sheets
    pc,                 \* "upload" | "failed" | "ready" | "suggested" | "exec" | "returned"
                        \* | "modeling" | "delivered"
    heap,               \* row objects by reference (index)
    tables,             \* TableCollection: sheet name -> Table
    tables0,            \* the collection and heap as processFile resolved them
    model,              \* the DataModel of the current / last execute call
    ji,                 \* position of the for-loop over model.joins
    resultRows,         \* executeDataModel locals
    resultColumns,
    currentDimensions,
    probedRows,         \* the accumulator the last loop iteration started from
    out,                \* what the last execute call returned or threw
    prev,               \* the value of an earlier result the caller still holds
    screen              \* the DataModeling component: its state, its pending
                        \* effects and state updates, what it handed over

vars == <<workbook, pc, heap, tables, tables0, model, ji, resultRows,
          resultColumns, currentDimensions, probedRows, out, prev, screen>>

----------------------------------------------------------------------------
(* Bounds of the model *)

MaxRows == 2
MaxJoins == 2
\* rows of a one-column sheet, rows of a two-column sheet
MaxTall == 6
MaxWide == 3
\* columns of a sheet whose column names are matched
MaxKeyed == 2
\* rows of the base sheet of a chain of tables, joins of a model over it
MaxLinked == 2
MaxLinks == 2
\* edits of the selection in the modeling screen
MaxEdits == 2

----------------------------------------------------------------------------
(* CellValue and its JavaScript coercions *)

Num(n) == [k |-> "number", n |-> n, s |-> ""]
NaN == [k |-> "number", n |-> 0, s |-> "NaN"]
Infinity == [k |-> "number", n |-> 0, s |-> "Infinity"]
NegInfinity == [k |-> "number", n |-> 0, s |-> "-Infinity"]
Str(s) == [k |-> "string", n |-> 0, s |-> s]
Bool(b) == [k |-> "boolean", n |-> IF b THEN 1 ELSE 0, s |-> ""]
Null == [k |-> "null", n |-> 0, s |-> ""]
Undefined == [k |-> "undefined", n |-> 0, s |-> ""]
\* a Date object, by its UTC day as the number YYYYMMDD
DateObj(day) == [k |-> "date", n |-> day, s |-> ""]

DigitChars == "0123456789"

RECURSIVE NatToString(_)
NatToString(n) ==
    IF n < 10 THEN SubSeq(DigitChars, n + 1, n + 1)
    ELSE NatToString(n \div 10) \o SubSeq(DigitChars, (n % 10) + 1, (n % 10) + 1)

IntToString(n) == IF n < 0 THEN "-" \o NatToString(-n) ELSE NatToString(n)

\* String(v)
String(v) ==
    CASE v.k = "string" -> v.s
      [] v.k = "number" -> IF v.s # "" THEN v.s ELSE IntToString(v.n)
      [] v.k = "boolean" -> IF v.n = 1 THEN "true" ELSE "false"
      [] v.k = "null" -> "null"
      [] v.k = "date" -> "Date " \o NatToString(v.n)
      [] OTHER -> "undefined"

DigitValue(c) == CHOOSE d \in 0..9 : SubSeq(DigitChars, d + 1, d + 1) = c
IsDigit(c) == \E d \in 0..9 : SubSeq(DigitChars, d + 1, d + 1) = c

RECURSIVE ParseDigits(_, _, _)
\* the digits of s from position i on, accumulated into acc; <<>> when a
\* character is not a digit
ParseDigits(s, i, acc) ==
    IF i > Len(s) THEN <<acc>>
    ELSE LET c == SubSeq(s, i, i)
         IN  IF IsDigit(c) THEN ParseDigits(s, i + 1, acc * 10 + DigitValue(c))
             ELSE <<>>

\* Number(v) over integer literals and the infinities: "" is 0, anything
\* else is NaN
Number(v) ==
    CASE v.k = "number" -> v
      [] v.k = "boolean" -> Num(v.n)
      [] v.k = "null" -> Num(0)
      [] v.k = "undefined" -> NaN
      [] v.k = "date" -> Num(v.n)
      [] OTHER ->
            LET s == v.s
                neg == Len(s) > 1 /\ SubSeq(s, 1, 1) = "-"
                body == IF neg THEN SubSeq(s, 2, Len(s)) ELSE s
                p == IF body = "" THEN <<0>> ELSE ParseDigits(body, 1, 0)
            IN  IF body = "Infinity" THEN (IF neg THEN NegInfinity ELSE Infinity)
                ELSE IF p = <<>> THEN NaN
                ELSE Num(IF neg THEN -p[1] ELSE p[1])

isNaN(v) == v.k = "number" /\ v.s = "NaN"

\* a + b
Plus(a, b) ==
    IF isNaN(a) \/ isNaN(b) THEN NaN
    ELSE IF a.s = "" /\ b.s = "" THEN Num(a.n + b.n)
    ELSE IF a.s = "" THEN b
    ELSE IF b.s = "" THEN a
    ELSE IF a = b THEN a ELSE NaN

\* a <= b
LessEq(a, b) ==
    /\ ~isNaN(a) /\ ~isNaN(b)
    /\ \/ a = NegInfinity
       \/ b = Infinity
       \/ a.s = "" /\ b.s = "" /\ a.n <= b.n

\* the UTC day of new Date(v), as the number YYYYMMDD, in a singleton; <<>>
\* for an invalid date.  A number or boolean is a count of milliseconds from
\* 1970-01-01; text other than a YYYY-MM-DD literal is taken as unparseable
DateOf(v) ==
    CASE v.k = "string" ->
            IF Len(v.s) = 10 /\ SubSeq(v.s, 5, 5) = "-" /\ SubSeq(v.s, 8, 8) = "-"
               /\ \A i \in {1, 2, 3, 4, 6, 7, 9, 10} : IsDigit(SubSeq(v.s, i, i))
            THEN ParseDigits(SubSeq(v.s, 1, 4) \o SubSeq(v.s, 6, 7) \o SubSeq(v.s, 9, 10), 1, 0)
            ELSE <<>>
      [] v.k \in {"number", "boolean"} -> IF v.s = "" THEN <<19700101>> ELSE <<>>
      [] v.k = "null" -> <<19700101>>
      [] v.k = "date" -> <<v.n>>
      [] OTHER -> <<>>

\* Date.parse(s) is a timestamp only for YYYY-MM-DD literals here
DateParses(s) ==
    /\ Len(s) = 10
    /\ SubSeq(s, 5, 5) = "-" /\ SubSeq(s, 8, 8) = "-"
    /\ \A i \in {1, 2, 3, 4, 6, 7, 9, 10} : IsDigit(SubSeq(s, i, i))

----------------------------------------------------------------------------
(* Row objects: insertion-ordered keys and their cells *)

EmptyObject == [keys |-> <<>>, cells |-> <<>>]

HasKey(o, name) == \E i \in 1..Len(o.keys) : o.keys[i] = name

\* o[name]
Get(o, name) == IF HasKey(o, name) THEN o.cells[name] ELSE Undefined

\* o[name] = v
Put(o, name, v) ==
    IF HasKey(o, name)
    THEN [o EXCEPT !.cells = [c \in DOMAIN o.cells |-> IF c = name THEN v ELSE o.cells[c]]]
    ELSE [keys |-> Append(o.keys, name),
          cells |-> [c \in {o.keys[i] : i \in 1..Len(o.keys)} \cup {name} |->
                        IF c = name THEN v ELSE o.cells[c]]]

Range(seq) == {seq[i] : i \in 1..Len(seq)}

SeqsUpTo(S, n) == UNION {[1..k -> S] : k \in 0..n}

----------------------------------------------------------------------------
(* dataProcessor: analyzeColumn, analyzeSheetData, processFile *)

None == <<>>
Some(x) == <<x>>

\* the empty string taken for a value
IsAbsentNullish(val) == val.k = "null" \/ val.k = "undefined"

\* the ColumnType a present value is counted under (the if-chain of the loop)
Classify(val) ==
    CASE val.k = "date" -> "Date"
      [] val.k = "number" -> "Number"
      [] val.k = "boolean" -> "Boolean"
      [] OTHER ->
            IF ~isNaN(Number(val)) /\ val.s # "" THEN "Number"
            ELSE IF DateParses(val.s) /\ Len(val.s) > 5 THEN "Date"
            ELSE "String"

IsAbsent(val) == val.k = "null" \/ val.k = "undefined" \/ val = Str("")

\* Set.add: insertion-ordered, by SameValueZero; a Date object is the same
\* value as itself only
SetAdd(distinct, val) ==
    IF val.k # "date" /\ \E i \in 1..Len(distinct) : distinct[i] = val THEN distinct
    ELSE Append(distinct, val)

ScanStart ==
    [nulls |-> 0, values |-> <<>>, distinct |-> <<>>,
     typeCounts |-> [t \in {"String", "Number", "Date", "Boolean"} |-> 0]]

RECURSIVE ScanColumn(_, _, _, _)
\* the for-loop over rows of analyzeColumn; objs are the row objects
ScanColumn(key, objs, i, st) ==
    IF i > Len(objs) THEN st
    ELSE LET val == Get(objs[i], key)
             nxt == IF IsAbsent(val)
                    THEN [st EXCEPT !.nulls = @ + 1]
                    ELSE [st EXCEPT !.values = Append(@, val),
                                    !.distinct = SetAdd(@, val),
                                    !.typeCounts[Classify(val)] = @ + 1]
         IN  ScanColumn(key, objs, i + 1, nxt)

\* the thresholds met by a share equal to them
DecideTypeAtLeast(typeCounts, n) ==
    IF typeCounts["Date"] * 10 >= n * 8 THEN "Date"
    ELSE IF typeCounts["Number"] * 10 >= n * 8 THEN "Number"
    ELSE IF typeCounts["Boolean"] * 10 >= n * 9 THEN "Boolean"
    ELSE "String"

\* the threshold decision: count > values.length * 0.8 (resp. 0.9)
DecideType(typeCounts, n) ==
    IF typeCounts["Date"] * 10 > n * 8 THEN "Date"
    ELSE IF typeCounts["Number"] * 10 > n * 8 THEN "Number"
    ELSE IF typeCounts["Boolean"] * 10 > n * 9 THEN "Boolean"
    ELSE "String"

RECURSIVE NumericValues(_, _)
\* values.map(v => Number(v)).filter(n => !isNaN(n))
NumericValues(values, i) ==
    IF i > Len(values) THEN <<>>
    ELSE LET n == Number(values[i])
         IN  (IF isNaN(n) THEN <<>> ELSE <<n>>) \o NumericValues(values, i + 1)

RECURSIVE SumSeq(_, _)
\* numericValues.reduce((a, b) => a + b, 0)
SumSeq(ns, i) == IF i = 0 THEN Num(0) ELSE Plus(SumSeq(ns, i - 1), ns[i])

\* Math.min(...ns), Math.max(...ns)
MinSeq(ns) == CHOOSE m \in Range(ns) : \A x \in Range(ns) : LessEq(m, x)
MaxSeq(ns) == CHOOSE m \in Range(ns) : \A x \in Range(ns) : LessEq(x, m)

RECURSIVE DateValues(_, _)
\* values.map(v => new Date(v).getTime()).filter(n => !isNaN(n)), by day
DateValues(values, i) ==
    IF i > Len(values) THEN <<>>
    ELSE DateOf(values[i]) \o DateValues(values, i + 1)

\* new Date(Math.min(...dates)), new Date(Math.max(...dates)), by day
MinDate(days) == DateObj(CHOOSE m \in Range(days) : \A x \in Range(days) : m <= x)
MaxDate(days) == DateObj(CHOOSE m \in Range(days) : \A x \in Range(days) : m >= x)

\* mean is the quotient sum / count, kept as the pair
analyzeColumn(key, objs) ==
    LET st == ScanColumn(key, objs, 1, ScanStart)
        type == DecideType(st.typeCounts, Len(st.values))
        nums == IF type = "Number" THEN NumericValues(st.values, 1) ELSE <<>>
        days == IF type = "Date" THEN DateValues(st.values, 1) ELSE <<>>
        has == Len(nums) > 0
    IN  [name |-> key,
         type |-> type,
         nullCount |-> st.nulls,
         uniqueCount |-> Len(st.distinct),
         min |-> IF has THEN Some(MinSeq(nums))
                 ELSE IF Len(days) > 0 THEN Some(MinDate(days)) ELSE None,
         max |-> IF has THEN Some(MaxSeq(nums))
                 ELSE IF Len(days) > 0 THEN Some(MaxDate(days)) ELSE None,
         sum |-> IF has THEN Some(SumSeq(nums, Len(nums))) ELSE None,
         mean |-> IF has THEN Some(<<SumSeq(nums, Len(nums)), Len(nums)>>) ELSE None,
         exampleValues |-> SubSeq(st.distinct, 1, IF Len(st.distinct) < 5 THEN Len(st.distinct) ELSE 5)]

RECURSIVE Filter(_, _, _)
Filter(seq, Keep(_), i) ==
    IF i > Len(seq) THEN <<>>
    ELSE (IF Keep(seq[i]) THEN <<seq[i]>> ELSE <<>>) \o Filter(seq, Keep, i + 1)

RECURSIVE StableSort(_, _, _)
\* Array.prototype.sort with a comparator; Before(a, b) is cmp(a, b) < 0
StableSort(seq, Before(_, _), i) ==
    IF i > Len(seq) THEN <<>>
    ELSE LET rest == StableSort(seq, Before, i + 1)
         IN  IF rest = <<>> THEN <<seq[i]>>
             ELSE IF \E j \in 1..Len(rest) : Before(rest[j], seq[i])
                  THEN LET last == CHOOSE j \in 1..Len(rest) :
                                      /\ Before(rest[j], seq[i])
                                      /\ \A l \in (j + 1)..Len(rest) : ~Before(rest[l], seq[i])
                       IN  SubSeq(rest, 1, last) \o <<seq[i]>> \o SubSeq(rest, last + 1, Len(rest))
                  ELSE <<seq[i]>> \o rest

\* the score with the nulls left out of it
MeasureScoreNoNulls(c, n) == c.uniqueCount * n

\* uniqueCount * (1 - nullCount / n), scaled by n; scores compare as their
\* floating-point values do for sheets of up to 6 rows
MeasureScore(c, n) == c.uniqueCount * (n - c.nullCount)

analyzeSheetData(objs, rowRefs, fileName) ==
    LET keys == objs[1].keys
        n == Len(objs)
        columns == [i \in 1..Len(keys) |-> analyzeColumn(keys[i], objs)]
        IsDateCol(c) == c.type = "Date" /\ c.uniqueCount > 1
        dateCols == Filter(columns, IsDateCol, 1)
        IsNumber(c) == c.type = "Number"
        ScoreBefore(a, b) == MeasureScore(b, n) - MeasureScore(a, n) < 0
        numberCols == StableSort(Filter(columns, IsNumber, 1), ScoreBefore, 1)
        IsDimension(c) == /\ c.type = "String"
                          /\ c.uniqueCount <= 100
                          /\ c.uniqueCount * 10 < n * 9
        CountBefore(a, b) == a.uniqueCount - b.uniqueCount < 0
        dims == StableSort(Filter(columns, IsDimension, 1), CountBefore, 1)
    IN  [fileName |-> fileName,
         rows |-> rowRefs,
         columns |-> columns,
         rowCount |-> n,
         primaryDateColumn |-> IF dateCols = <<>> THEN None ELSE Some(dateCols[1].name),
         primaryMeasureColumn |-> IF numberCols = <<>> THEN None ELSE Some(numberCols[1].name),
         dimensions |-> [i \in 1..Len(dims) |-> dims[i].name]]

RECURSIVE LoadSheetsAll(_, _, _)
\* the loop with a table made for a sheet without rows too
LoadSheetsAll(sheets, i, st) ==
    IF i > Len(sheets) THEN st
    ELSE LET rawRows == sheets[i].rows
             sheetName == sheets[i].name
             rowRefs == [r \in 1..Len(rawRows) |-> Len(st.heap) + r]
             table == IF Len(rawRows) > 0
                      THEN [id |-> sheetName, tableName |-> sheetName]
                               @@ analyzeSheetData(rawRows, rowRefs, sheetName)
                      ELSE [id |-> sheetName, tableName |-> sheetName,
                            fileName |-> sheetName, rows |-> <<>>, columns |-> <<>>,
                            rowCount |-> 0, primaryDateColumn |-> None,
                            primaryMeasureColumn |-> None, dimensions |-> <<>>]
         IN  LoadSheetsAll(sheets, i + 1,
                           [heap |-> st.heap \o rawRows,
                            tables |-> Put(st.tables, sheetName, table)])

RECURSIVE LoadSheets(_, _, _)
\* workbook.SheetNames.forEach: st = [heap, tables]; a sheet without rows
\* adds no table
LoadSheets(sheets, i, st) ==
    IF i > Len(sheets) THEN st
    ELSE LET rawRows == sheets[i].rows
             sheetName == sheets[i].name
             rowRefs == [r \in 1..Len(rawRows) |-> Len(st.heap) + r]
             analyzedData == analyzeSheetData(rawRows, rowRefs, sheetName)
             table == [id |-> sheetName, tableName |-> sheetName] @@ analyzedData
         IN  IF Len(rawRows) > 0
             THEN LoadSheets(sheets, i + 1,
                             [heap |-> st.heap \o rawRows,
                              tables |-> Put(st.tables, sheetName, table)])
             ELSE LoadSheets(sheets, i + 1, st)

NoTables == EmptyObject

\* tables[id] of a table that is there
TableOf(tbls, id) == tbls.cells[id]

----------------------------------------------------------------------------
(* dataProcessor: suggestJoins *)

UpperChars == "ABCDEFGHIJKLMNOPQRSTUVWXYZ"
LowerChars == "abcdefghijklmnopqrstuvwxyz"

LowerChar(c) ==
    IF \E i \in 1..Len(UpperChars) : SubSeq(UpperChars, i, i) = c
    THEN LET i == CHOOSE i \in 1..Len(UpperChars) : SubSeq(UpperChars, i, i) = c
         IN  SubSeq(LowerChars, i, i)
    ELSE c

RECURSIVE toLowerCase(_)
toLowerCase(s) ==
    IF Len(s) = 0 THEN ""
    ELSE LowerChar(SubSeq(s, 1, 1)) \o toLowerCase(SubSeq(s, 2, Len(s)))

\* s.includes(sub)
includes(s, sub) ==
    \E i \in 1..(Len(s) - Len(sub) + 1) : SubSeq(s, i, i + Len(sub) - 1) = sub

\* s.slice(0, -1)
DropLast(s) == IF Len(s) = 0 THEN "" ELSE SubSeq(s, 1, Len(s) - 1)

\* uniqueCount / rowCount > 0.9
NearUnique(col, table) == col.uniqueCount * 10 > table.rowCount * 9

\* Array.prototype.find, as the index of the first element or 0
FindIndex(seq, P(_)) ==
    IF \E i \in 1..Len(seq) : P(seq[i])
    THEN CHOOSE i \in 1..Len(seq) : P(seq[i]) /\ \A j \in 1..(i - 1) : ~P(seq[j])
    ELSE 0

\* crypto.randomUUID(): an identifier no other suggestion of the call carries
FreshId(n) == "uuid" \o NatToString(n)

RECURSIVE NameMatchFirst(_, _, _, _, _)
\* the nested loops left at their first hit
NameMatchFirst(baseTable, dimTable, p, id, bestJoin) ==
    LET nd == Len(dimTable.columns)
    IN  IF p > Len(baseTable.columns) * nd THEN bestJoin
        ELSE LET baseCol == baseTable.columns[((p - 1) \div nd) + 1]
                 dimCol == dimTable.columns[((p - 1) % nd) + 1]
                 hit == /\ toLowerCase(baseCol.name) = toLowerCase(dimCol.name)
                        /\ NearUnique(dimCol, dimTable)
             IN  NameMatchFirst(baseTable, dimTable, p + 1, id,
                                IF hit /\ bestJoin = None
                                THEN Some([id |-> id,
                                           rightTableId |-> dimTable.id,
                                           leftColumn |-> baseCol.name,
                                           rightColumn |-> dimCol.name,
                                           joinType |-> "LEFT"])
                                ELSE bestJoin)

RECURSIVE NameMatch(_, _, _, _, _)
\* Strategy 1, the nested loops over base and dim columns flattened to
\* p = (i - 1) * |dim columns| + j; bestJoin is overwritten by every hit
NameMatch(baseTable, dimTable, p, id, bestJoin) ==
    LET nd == Len(dimTable.columns)
    IN  IF p > Len(baseTable.columns) * nd THEN bestJoin
        ELSE LET baseCol == baseTable.columns[((p - 1) \div nd) + 1]
                 dimCol == dimTable.columns[((p - 1) % nd) + 1]
                 hit == /\ toLowerCase(baseCol.name) = toLowerCase(dimCol.name)
                        /\ NearUnique(dimCol, dimTable)
             IN  NameMatch(baseTable, dimTable, p + 1, id,
                           IF hit
                           THEN Some([id |-> id,
                                      rightTableId |-> dimTable.id,
                                      leftColumn |-> baseCol.name,
                                      rightColumn |-> dimCol.name,
                                      joinType |-> "LEFT"])
                           ELSE bestJoin)

\* Strategy 2, the foreign-key naming convention
KeyConvention(baseTable, dimTable, id) ==
    LET tname == toLowerCase(dimTable.tableName)
        fkName == DropLast(tname) \o "_id"
        IsIdCol(c) == \/ toLowerCase(c.name) = "id"
                      \/ toLowerCase(c.name) = tname \o "_id"
                      \/ toLowerCase(c.name) = fkName
        d == FindIndex(dimTable.columns, IsIdCol)
        IsFk(c) == \/ includes(toLowerCase(c.name), tname)
                   \/ toLowerCase(c.name) = fkName
        b == FindIndex(baseTable.columns, IsFk)
    IN  IF d # 0 /\ NearUnique(dimTable.columns[d], dimTable) /\ b # 0
        THEN Some([id |-> id,
                   rightTableId |-> dimTable.id,
                   leftColumn |-> baseTable.columns[b].name,
                   rightColumn |-> dimTable.columns[d].name,
                   joinType |-> "LEFT"])
        ELSE None

RECURSIVE SuggestLoopKeyFirst(_, _, _, _)
\* the loop with the key convention tried before the names
SuggestLoopKeyFirst(baseTable, tbls, i, suggestions) ==
    IF i > Len(tbls.keys) THEN suggestions
    ELSE LET dimTable == TableOf(tbls, tbls.keys[i])
             id == FreshId(Len(suggestions) + 1)
             byKey == KeyConvention(baseTable, dimTable, id)
             bestJoin == IF byKey # None THEN byKey
                         ELSE NameMatch(baseTable, dimTable, 1, id, None)
         IN  IF dimTable.id = baseTable.id
             THEN SuggestLoopKeyFirst(baseTable, tbls, i + 1, suggestions)
             ELSE SuggestLoopKeyFirst(baseTable, tbls, i + 1, suggestions \o bestJoin)

RECURSIVE SuggestLoopAll(_, _, _, _)
\* the loop over every table, the base table among them
SuggestLoopAll(baseTable, tbls, i, suggestions) ==
    IF i > Len(tbls.keys) THEN suggestions
    ELSE LET dimTable == TableOf(tbls, tbls.keys[i])
             id == FreshId(Len(suggestions) + 1)
             byName == NameMatch(baseTable, dimTable, 1, id, None)
             bestJoin == IF byName # None THEN byName
                         ELSE KeyConvention(baseTable, dimTable, id)
         IN  SuggestLoopAll(baseTable, tbls, i + 1, suggestions \o bestJoin)

RECURSIVE SuggestLoop(_, _, _, _)
\* potentialDimensions.forEach over the tables other than the base
SuggestLoop(baseTable, tbls, i, suggestions) ==
    IF i > Len(tbls.keys) THEN suggestions
    ELSE LET dimTable == TableOf(tbls, tbls.keys[i])
             id == FreshId(Len(suggestions) + 1)
             byName == NameMatch(baseTable, dimTable, 1, id, None)
             bestJoin == IF byName # None THEN byName
                         ELSE KeyConvention(baseTable, dimTable, id)
         IN  IF dimTable.id = baseTable.id
             THEN SuggestLoop(baseTable, tbls, i + 1, suggestions)
             ELSE SuggestLoop(baseTable, tbls, i + 1, suggestions \o bestJoin)

suggestJoins(baseTableId, tbls) ==
    IF ~HasKey(tbls, baseTableId) THEN <<>>
    ELSE SuggestLoop(TableOf(tbls, baseTableId), tbls, 1, <<>>)

----------------------------------------------------------------------------
(* joinEngine: executeDataModel *)

\* the row itself where the code makes a copy
CloneRowAlias(h, ref) == [heap |-> h, ref |-> ref]

\* { ...r }
CloneRow(h, ref) == [heap |-> Append(h, h[ref]), ref |-> Len(h) + 1]

RECURSIVE CloneRows(_, _, _)
\* baseTable.rows.map(r => ({ ...r })); st = [heap, rows]
CloneRows(rows, i, st) ==
    IF i > Len(rows) THEN st
    ELSE LET c == CloneRow(st.heap, rows[i])
         IN  CloneRows(rows, i + 1, [heap |-> c.heap, rows |-> Append(st.rows, c.ref)])

\* the key left as it is, compared by type and value
JoinKeyRaw(val) == val

\* an empty cell keyed apart from every text
JoinKeyAbsentApart(val) == IF val.k = "null" THEN "" ELSE String(val)

\* the key a row is indexed and probed under: String(row[column])
JoinKey(val) == String(val)

\* a map in which the first row set under a key stays
MapSetFirst(m, key, v) == IF key \in DOMAIN m THEN m ELSE (key :> v) @@ m

\* Map.set
MapSet(m, key, v) == (key :> v) @@ m

RECURSIVE BuildRightMap(_, _, _, _, _)
\* rightTable.rows.forEach(row => rightMap.set(String(row[rightColumn]), row))
BuildRightMap(h, rows, rightColumn, i, rightMap) ==
    IF i > Len(rows) THEN rightMap
    ELSE BuildRightMap(h, rows, rightColumn, i + 1,
                       MapSet(rightMap, JoinKey(Get(h[rows[i]], rightColumn)), rows[i]))

PrefixedName(rightPrefix, name) == rightPrefix \o "." \o name

\* an unmatched row's prefixed cells left undefined
UndefinedFill == Undefined

\* what an unmatched row gets under each prefixed name
NullFill == Null

RECURSIVE MergeColumns(_, _, _, _, _, _)
\* rightTable.columns.forEach(col => mergedRow[prefix.col] = rightRow[col] | null)
\* rightRef = 0 stands for the null fill of an unmatched row
MergeColumns(h, mergedRow, rightPrefix, columns, i, rightRef) ==
    IF i > Len(columns) THEN h
    ELSE LET val == IF rightRef = 0 THEN NullFill
                    ELSE Get(h[rightRef], columns[i].name)
         IN  MergeColumns([h EXCEPT ![mergedRow] =
                                Put(@, PrefixedName(rightPrefix, columns[i].name), val)],
                          mergedRow, rightPrefix, columns, i + 1, rightRef)

\* the join types taken for one another
KeepsUnmatchedSwapped(join) == join.joinType = "INNER"

\* every join taken for a LEFT join
KeepsUnmatchedAlways(join) == TRUE

\* whether an unmatched row is pushed to newRows
KeepsUnmatched(join) == join.joinType = "LEFT"

RECURSIVE ProbeRows(_, _, _, _, _, _)
\* for (const leftRow of resultRows): st = [heap, newRows]
ProbeRows(left, i, join, rightTable, rightMap, st) ==
    IF i > Len(left) THEN st
    ELSE LET key == JoinKey(Get(st.heap[left[i]], join.leftColumn))
             hit == key \in DOMAIN rightMap
             c == CloneRow(st.heap, left[i])
             merged == MergeColumns(c.heap, c.ref, rightTable.tableName,
                                    rightTable.columns, 1,
                                    IF hit THEN rightMap[key] ELSE 0)
         IN  ProbeRows(left, i + 1, join, rightTable, rightMap,
                       IF hit \/ KeepsUnmatched(join)
                       THEN [heap |-> merged, newRows |-> Append(st.newRows, c.ref)]
                       ELSE st)

\* the right table's profiles appended under their own names
RenameColumnsPlain(rightTable) == rightTable.columns

\* rightTable.columns.map(col => ({ ...col, name: prefix.name }))
RenameColumns(rightTable) ==
    [i \in 1..Len(rightTable.columns) |->
        [rightTable.columns[i] EXCEPT !.name = PrefixedName(rightTable.tableName, @)]]

\* rightTable.dimensions.map(d => prefix.d)
PrefixDimensions(rightTable) ==
    [i \in 1..Len(rightTable.dimensions) |->
        PrefixedName(rightTable.tableName, rightTable.dimensions[i])]

\* a missing right table taken for a table without rows
SkipJoinAsEmpty(st, join) ==
    IF join.joinType = "INNER" THEN [st EXCEPT !.resultRows = <<>>] ELSE st

\* if (!rightTable) continue
SkipJoin(st, join) == st

\* one iteration of the for-loop over model.joins, lines 17-76, on the
\* locals st = [heap, resultRows, resultColumns, currentDimensions]
JoinStep(tbls, st, join) ==
    IF ~HasKey(tbls, join.rightTableId) THEN SkipJoin(st, join)
    ELSE LET rightTable == TableOf(tbls, join.rightTableId)
             rightMap == BuildRightMap(st.heap, rightTable.rows, join.rightColumn, 1, <<>>)
             probed == ProbeRows(st.resultRows, 1, join, rightTable, rightMap,
                                 [heap |-> st.heap, newRows |-> <<>>])
         IN  [heap |-> probed.heap,
              resultRows |-> probed.newRows,
              resultColumns |-> st.resultColumns \o RenameColumns(rightTable),
              currentDimensions |-> st.currentDimensions \o PrefixDimensions(rightTable)]

\* the accumulator seeded with the base table's own row objects
SeedLocalsShared(h, baseTable) ==
    [heap |-> h,
     resultRows |-> baseTable.rows,
     resultColumns |-> baseTable.columns,
     currentDimensions |-> baseTable.dimensions]

\* lines 11-14: the locals seeded from the base table
SeedLocals(h, baseTable) ==
    LET seeded == CloneRows(baseTable.rows, 1, [heap |-> h, rows |-> <<>>])
    IN  [heap |-> seeded.heap,
         resultRows |-> seeded.rows,
         resultColumns |-> baseTable.columns,
         currentDimensions |-> baseTable.dimensions]

\* an empty DataSet returned where the code throws
ThrownAsEmpty(message) ==
    [status |-> "ok", fileName |-> message, rows |-> <<>>, columns |-> <<>>,
     rowCount |-> 0, primaryDateColumn |-> <<>>, primaryMeasureColumn |-> <<>>,
     dimensions |-> <<>>]

\* the measure taken from the last column of the unified list
ReturnedDataSetRemeasured(baseTable, m, st) ==
    [status |-> "ok",
     fileName |-> "Model: " \o baseTable.tableName \o " + "
                  \o NatToString(Len(m.joins)) \o " joins",
     rows |-> st.resultRows,
     columns |-> st.resultColumns,
     rowCount |-> Len(st.resultRows),
     primaryDateColumn |-> baseTable.primaryDateColumn,
     primaryMeasureColumn |-> Some(st.resultColumns[Len(st.resultColumns)].name),
     dimensions |-> st.currentDimensions]

\* lines 84-92: the returned DataSet
ReturnedDataSet(baseTable, m, st) ==
    [status |-> "ok",
     fileName |-> "Model: " \o baseTable.tableName \o " + "
                  \o NatToString(Len(m.joins)) \o " joins",
     rows |-> st.resultRows,
     columns |-> st.resultColumns,
     rowCount |-> Len(st.resultRows),
     primaryDateColumn |-> baseTable.primaryDateColumn,
     primaryMeasureColumn |-> baseTable.primaryMeasureColumn,
     dimensions |-> st.currentDimensions]

Thrown(message) == [status |-> "error", message |-> message]

RECURSIVE JoinLoop(_, _, _, _)
JoinLoop(tbls, st, joins, i) ==
    IF i > Len(joins) THEN st
    ELSE JoinLoop(tbls, JoinStep(tbls, st, joins[i]), joins, i + 1)

\* executeDataModel as one call on a collection and its heap: what it
\* returns or throws, and the heap it leaves
executeDataModel(tbls, h, m) ==
    IF ~HasKey(tbls, m.baseTableId)
    THEN [heap |-> h, result |-> Thrown("Base table not found")]
    ELSE LET baseTable == TableOf(tbls, m.baseTableId)
             st == JoinLoop(tbls, SeedLocals(h, baseTable), m.joins, 1)
         IN  [heap |-> st.heap, result |-> ReturnedDataSet(baseTable, m, st)]

\* a returned DataSet with its row references resolved to the row objects
DataSetValue(h, ds) ==
    IF ds.status = "ok"
    THEN [ds EXCEPT !.rows = [i \in 1..Len(ds.rows) |-> h[ds.rows[i]]]]
    ELSE ds

\* the row objects the table collection holds
SourceCount == Len(tables0.heap)

\* garbage collection: the source rows stay where they are, the rows named
\* by refs follow them in order, every other object is dropped
Collect(h, refs) ==
    LET Fresh(i) == refs[i] > SourceCount
        NewRef(i) == IF Fresh(i)
                     THEN SourceCount + Cardinality({j \in 1..i : Fresh(j)})
                     ELSE refs[i]
        RECURSIVE Kept(_)
        Kept(i) == IF i > Len(refs) THEN <<>>
                   ELSE (IF Fresh(i) THEN <<h[refs[i]]>> ELSE <<>>) \o Kept(i + 1)
    IN  [heap |-> SubSeq(h, 1, SourceCount) \o Kept(1),
         refs |-> [i \in 1..Len(refs) |-> NewRef(i)]]

Pending == [status |-> "pending"]

----------------------------------------------------------------------------
(* Inputs: the uploaded workbook and the DataModels handed to execute *)

\* the join-key cells of the base sheet: a number, its text, an empty cell
KeyVals == {Num(7), Str("7"), Null}

\* the join-key cells of the looked-up sheet: the number and its text
RightKeyVals == {Num(7), Str("7")}

RECURSIVE Obj(_, _)
\* the object literal with the given <<name, value>> pairs, in order
Obj(pairs, i) ==
    IF i = 0 THEN EmptyObject
    ELSE Put(Obj(pairs, i - 1), pairs[i][1], pairs[i][2])

\* an Orders row; dotted adds a column whose own name contains a dot
OrdersRow(i, key, dotted) ==
    LET plain == <<<<"id", Num(i)>>, <<"cust", key>>>>
    IN  IF dotted THEN Obj(plain \o <<<<"Customers.tier", Str("x")>>>>, 3)
        ELSE Obj(plain, 2)

CustomersRow(i, key) ==
    Obj(<<<<"cust", key>>, <<"tier", Str("t" \o NatToString(i))>>>>, 2)

Workbooks ==
    {<<[name |-> "Orders",
        rows |-> [i \in 1..Len(ok) |-> OrdersRow(i, ok[i], dotted)]],
       [name |-> "Customers",
        rows |-> [i \in 1..Len(ck) |-> CustomersRow(i, ck[i])]]>> :
        ok \in SeqsUpTo(KeyVals, MaxRows),
        ck \in SeqsUpTo(RightKeyVals, MaxRows),
        dotted \in BOOLEAN}

\* the JoinConfigs a caller may pass, ids aside; "Archive" is never a sheet
\* (nor the name of a member every JavaScript object inherits)
JoinShapes ==
    {[rightTableId |-> "Customers", leftColumn |-> "cust",
      rightColumn |-> "cust", joinType |-> t] : t \in {"LEFT", "INNER"}}
    \cup {[rightTableId |-> "Archive", leftColumn |-> "cust",
           rightColumn |-> "cust", joinType |-> "INNER"]}

WithIds(shapes) ==
    [i \in 1..Len(shapes) |-> [id |-> "j" \o NatToString(i)] @@ shapes[i]]

Models ==
    {[baseTableId |-> "Orders", joins |-> WithIds(js)] :
        js \in SeqsUpTo(JoinShapes, MaxJoins)}

NoModel == [baseTableId |-> "", joins |-> <<>>]

\* the cells of a one-column sheet: a number, numeric text, other text, a
\* boolean, a date literal, an empty cell, and the texts of the infinities
TallValues ==
    <<Num(5), Str("3"), Str("abc"), Bool(TRUE), Str("2024-01-05"), Null,
      Str("Infinity"), Str("-Infinity")>>

RECURSIVE Runs(_, _)
\* the columns of at most n cells that hold TallValues[v], TallValues[v + 1],
\* ... in runs, in that order
Runs(v, n) ==
    IF v > Len(TallValues) THEN {<<>>}
    ELSE UNION {{[i \in 1..c |-> TallValues[v]] \o rest : rest \in Runs(v + 1, n - c)} :
                    c \in 0..n}

\* a numbered column of cells; the number keeps a row with an empty cell
\* from being a blank row, which the reader of the sheet leaves out
TallSheets ==
    {<<[name |-> "Tall",
        rows |-> [i \in 1..Len(col) |-> Obj(<<<<"id", Num(i)>>, <<"v", col[i]>>>>, 2)]]>> :
        col \in Runs(1, MaxTall)}

\* the cells of a column of a two-column sheet, by the kind of the column
WideValues ==
    [number |-> {Num(1), Num(2), Null}, text |-> {Str("x"), Str("y"), Str("")}]

WideColumns(n) == UNION {[1..n -> WideValues[kind]] : kind \in DOMAIN WideValues}

\* two columns of a kind each, without blank rows
WideSheets ==
    {<<[name |-> "Wide",
        rows |-> [i \in 1..Len(ab[1]) |->
                    Obj(<<<<"a", ab[1][i]>>, <<"b", ab[2][i]>>>>, 2)]]>> :
        ab \in {p \in UNION {WideColumns(n) \X WideColumns(n) : n \in 1..MaxWide} :
                    \A i \in 1..Len(p[1]) :
                        ~(p[1][i] \in {Null, Str("")} /\ p[2][i] \in {Null, Str("")})}}

\* the column names of a base sheet and of a looked-up sheet "Customers":
\* names equal up to case, the names of the key convention, a name that
\* contains the table's
LeftNames == {"cust", "customer_id", "my_customers"}
RightNames == {"Cust", "id", "customer_id", "Customers_ID"}

\* the sequences of at most n elements of S with no name twice
NamedSeqs(S, Name(_), n) ==
    {q \in SeqsUpTo(S, n) :
        Len(q) > 0 /\ \A i, j \in 1..Len(q) : i # j => Name(q[i]) # Name(q[j])}

\* a sheet of two rows; a column is <<name, whether its two cells differ>>
KeyedSheet(name, cols) ==
    [name |-> name,
     rows |-> [i \in 1..2 |->
                 Obj([c \in 1..Len(cols) |->
                         <<cols[c][1], IF cols[c][2] THEN Num(i) ELSE Num(0)>>],
                     Len(cols))]]

KeyedBooks ==
    LET First(x) == x[1]
        Self(x) == x
    IN  {<<KeyedSheet("Orders", [c \in 1..Len(l) |-> <<l[c], TRUE>>]),
           KeyedSheet("Customers", r)>> :
            l \in NamedSeqs(LeftNames, Self, MaxKeyed),
            r \in NamedSeqs(RightNames \X BOOLEAN, First, MaxKeyed)}

\* a chain of sheets: Orders.cust -> Customers.cust, Customers.region ->
\* Regions.region.  An Orders key is a text or an empty cell; the looked-up
\* sheets have a first row with a text key and may have a second one whose
\* key is an empty cell or the text "null"
LinkedKeys == {Str("a"), Null}
AbsentKeys == {Null, Str("null")}

LinkedSheet(name, key, other, first, second) ==
    {[name |-> name,
      rows |-> <<Obj(<<<<key, first[1]>>, <<other, first[2]>>>>, 2)>>]}
    \cup {[name |-> name,
           rows |-> <<Obj(<<<<key, first[1]>>, <<other, first[2]>>>>, 2),
                      Obj(<<<<key, k>>, <<other, second>>>>, 2)>>] :
              k \in AbsentKeys}

LinkedBooks ==
    {<<[name |-> "Orders",
        rows |-> [i \in 1..Len(ok) |-> OrdersRow(i, ok[i], FALSE)]], c, r>> :
        ok \in SeqsUpTo(LinkedKeys, MaxLinked) \ {<<>>},
        c \in LinkedSheet("Customers", "cust", "region", <<Str("a"), Str("n")>>, Str("s")),
        r \in LinkedSheet("Regions", "region", "zone", <<Str("n"), Str("z1")>>, Str("z2"))}

\* the joins along the chain, and joins to Customers that name a column
\* ("nope") no sheet has
LinkShapes ==
    {[rightTableId |-> "Customers", leftColumn |-> "cust",
      rightColumn |-> "cust", joinType |-> t] : t \in {"LEFT", "INNER"}}
    \cup {[rightTableId |-> "Regions", leftColumn |-> "Customers.region",
           rightColumn |-> "region", joinType |-> t] : t \in {"LEFT", "INNER"}}

StrayShapes ==
    {[rightTableId |-> "Customers", leftColumn |-> l,
      rightColumn |-> r, joinType |-> t] :
        l \in {"cust", "nope"}, r \in {"cust", "nope"}, t \in {"LEFT", "INNER"}}
    \ LinkShapes

LinkedModels ==
    {[baseTableId |-> "Orders", joins |-> WithIds(js)] :
        js \in SeqsUpTo(LinkShapes, MaxLinks) \cup {<<j>> : j \in StrayShapes}}

\* the workbooks of the modeling screen: two Orders rows, one Customers row
ScreenBooks ==
    {w \in Workbooks :
        /\ Len(w[1].rows) = 2 /\ Len(w[2].rows) = 1
        /\ ~HasKey(w[1].rows[1], "Customers.tier")
        /\ Get(w[1].rows[1], "cust") = Num(7)}

\* the component before it is mounted
NoScreen ==
    [baseTableId |-> "", joins |-> <<>>, previewData |-> None,
     effects |-> {}, queue |-> <<>>, edits |-> 0, timer |-> None, delivered |-> None]

----------------------------------------------------------------------------
(* The state machine *)

Init ==
    /\ workbook \in Workbooks
    /\ pc = "upload"
    /\ heap = <<>>
    /\ tables = NoTables
    /\ tables0 = [tables |-> NoTables, heap |-> <<>>]
    /\ model = NoModel
    /\ ji = 0
    /\ resultRows = <<>>
    /\ resultColumns = <<>>
    /\ currentDimensions = <<>>
    /\ probedRows = <<>>
    /\ out = Pending
    /\ prev = Pending
    /\ screen = NoScreen

\* an upload of a workbook with one sheet
ProfileInit ==
    /\ workbook \in TallSheets \cup WideSheets
    /\ pc = "upload"
    /\ heap = <<>>
    /\ tables = NoTables
    /\ tables0 = [tables |-> NoTables, heap |-> <<>>]
    /\ model = NoModel
    /\ ji = 0
    /\ resultRows = <<>>
    /\ resultColumns = <<>>
    /\ currentDimensions = <<>>
    /\ probedRows = <<>>
    /\ out = Pending
    /\ prev = Pending
    /\ screen = NoScreen

\* an upload of a workbook whose sheets share column names
KeyedInit ==
    /\ workbook \in KeyedBooks
    /\ pc = "upload"
    /\ heap = <<>>
    /\ tables = NoTables
    /\ tables0 = [tables |-> NoTables, heap |-> <<>>]
    /\ model = NoModel
    /\ ji = 0
    /\ resultRows = <<>>
    /\ resultColumns = <<>>
    /\ currentDimensions = <<>>
    /\ probedRows = <<>>
    /\ out = Pending
    /\ prev = Pending
    /\ screen = NoScreen

\* an upload of a workbook with a chain of sheets
LinkedInit ==
    /\ workbook \in LinkedBooks
    /\ pc = "upload"
    /\ heap = <<>>
    /\ tables = NoTables
    /\ tables0 = [tables |-> NoTables, heap |-> <<>>]
    /\ model = NoModel
    /\ ji = 0
    /\ resultRows = <<>>
    /\ resultColumns = <<>>
    /\ currentDimensions = <<>>
    /\ probedRows = <<>>
    /\ out = Pending
    /\ prev = Pending
    /\ screen = NoScreen

\* processFile: reader.onload
ProcessFile ==
    /\ pc = "upload"
    /\ \E st \in {LoadSheets(workbook, 1, [heap |-> <<>>, tables |-> NoTables])} :
           IF Len(st.tables.keys) = 0
           THEN /\ pc' = "failed"
                /\ UNCHANGED <<heap, tables, tables0>>
           ELSE /\ pc' = "ready"
                /\ heap' = st.heap
                /\ tables' = st.tables
                /\ tables0' = st
    /\ UNCHANGED <<screen, workbook, model, ji, resultRows, resultColumns,
                   currentDimensions, probedRows, out, prev>>

\* the tables a suggestion may be asked for; "Archive" is never a sheet
SuggestBases == {"Orders", "Customers", "Archive"}

\* suggestJoins(baseTableId, tables); the suggestions become the joins of
\* the model under edit
Suggest(baseTableId) ==
    /\ pc = "ready"
    /\ pc' = "suggested"
    /\ model' = [baseTableId |-> baseTableId,
                 joins |-> suggestJoins(baseTableId, tables)]
    /\ UNCHANGED <<screen, workbook, heap, tables, tables0, ji, resultRows, resultColumns,
                   currentDimensions, probedRows, out, prev>>

\* executeDataModel is entered with model m on heap h, lines 7-14
Enter(m, h) ==
    /\ model' = m
    /\ IF ~HasKey(tables, m.baseTableId)
       THEN /\ out' = Thrown("Base table not found")
            /\ pc' = "returned"
            /\ heap' = h
            /\ UNCHANGED <<ji, resultRows, resultColumns, currentDimensions>>
       ELSE \E st \in {SeedLocals(h, TableOf(tables, m.baseTableId))} :
                /\ pc' = "exec"
                /\ heap' = st.heap
                /\ resultRows' = st.resultRows
                /\ resultColumns' = st.resultColumns
                /\ currentDimensions' = st.currentDimensions
                /\ ji' = 1
                /\ out' = Pending
    /\ probedRows' = <<>>
    /\ UNCHANGED <<screen, workbook, tables, tables0>>

\* a caller passes model m
ExecStart(m) ==
    /\ pc = "ready"
    /\ Enter(m, heap)
    /\ UNCHANGED prev

\* the preview of the suggested model
ExecSuggested ==
    /\ pc = "suggested"
    /\ Enter(model, heap)
    /\ UNCHANGED prev

\* the caller keeps the result and calls again with the same model; the call
\* runs to completion, the rows of the result kept before stay on the heap
\* while it runs
Rerun ==
    /\ pc = "returned"
    /\ prev = Pending
    /\ prev' = DataSetValue(heap, out)
    /\ \E call \in {executeDataModel(tables, heap, model)} :
           IF call.result.status = "ok"
           THEN \E kept \in {Collect(call.heap, call.result.rows)} :
                    /\ heap' = kept.heap
                    /\ out' = [call.result EXCEPT !.rows = kept.refs]
           ELSE /\ heap' = call.heap
                /\ out' = call.result
    /\ UNCHANGED <<screen, workbook, pc, tables, tables0, model, ji, resultRows,
                   resultColumns, currentDimensions, probedRows>>

\* an iteration that probes fresh copies of the base table's rows
ExecJoinFromBase ==
    /\ pc = "exec"
    /\ ji <= Len(model.joins)
    /\ \E seed \in {SeedLocals(heap, TableOf(tables, model.baseTableId))} :
       \E st \in {JoinStep(tables,
                           [heap |-> seed.heap, resultRows |-> seed.resultRows,
                            resultColumns |-> resultColumns,
                            currentDimensions |-> currentDimensions],
                           model.joins[ji])} :
           /\ heap' = st.heap
           /\ resultRows' = st.resultRows
           /\ resultColumns' = st.resultColumns
           /\ currentDimensions' = st.currentDimensions
           /\ probedRows' = seed.resultRows
    /\ ji' = ji + 1
    /\ UNCHANGED <<screen, workbook, pc, tables, tables0, model, out, prev>>

\* one iteration of the for-loop over model.joins, lines 17-76
ExecJoin ==
    /\ pc = "exec"
    /\ ji <= Len(model.joins)
    /\ \E st \in {JoinStep(tables,
                          [heap |-> heap, resultRows |-> resultRows,
                           resultColumns |-> resultColumns,
                           currentDimensions |-> currentDimensions],
                          model.joins[ji])} :
           /\ heap' = st.heap
           /\ resultRows' = st.resultRows
           /\ resultColumns' = st.resultColumns
           /\ currentDimensions' = st.currentDimensions
    /\ probedRows' = resultRows
    /\ ji' = ji + 1
    /\ UNCHANGED <<screen, workbook, pc, tables, tables0, model, out, prev>>

\* the return statement, lines 84-92; the locals go out of scope and the
\* intermediate row copies with them
ExecReturn ==
    /\ pc = "exec"
    /\ ji > Len(model.joins)
    /\ \E kept \in {Collect(heap, resultRows)} :
       \E ds \in {ReturnedDataSet(TableOf(tables, model.baseTableId), model,
                                  [resultRows |-> resultRows,
                                   resultColumns |-> resultColumns,
                                   currentDimensions |-> currentDimensions])} :
           /\ heap' = kept.heap
           /\ out' = [ds EXCEPT !.rows = kept.refs]
    /\ pc' = "returned"
    /\ ji' = 0
    /\ resultRows' = <<>>
    /\ resultColumns' = <<>>
    /\ currentDimensions' = <<>>
    /\ probedRows' = <<>>
    /\ UNCHANGED <<screen, workbook, tables, tables0, model, prev>>

\* the caller lets go of the result of the last call (a thrown error is
\* logged, a preview is replaced)
Discard ==
    /\ pc = "returned"
    /\ pc' = "ready"
    /\ out' = Pending
    /\ prev' = Pending
    /\ model' = NoModel
    /\ heap' = Collect(heap, <<>>).heap
    /\ UNCHANGED <<screen, workbook, tables, tables0, ji, resultRows, resultColumns,
                   currentDimensions, probedRows>>

\* what the modeling screen leaves alone
engine == <<workbook, heap, tables, tables0, model, ji, resultRows,
            resultColumns, currentDimensions, probedRows, out, prev>>

\* an upload that leads to the modeling screen
ScreenInit ==
    /\ workbook \in ScreenBooks
    /\ pc = "upload"
    /\ heap = <<>>
    /\ tables = NoTables
    /\ tables0 = [tables |-> NoTables, heap |-> <<>>]
    /\ model = NoModel
    /\ ji = 0
    /\ resultRows = <<>>
    /\ resultColumns = <<>>
    /\ currentDimensions = <<>>
    /\ probedRows = <<>>
    /\ out = Pending
    /\ prev = Pending
    /\ screen = NoScreen

\* the first render of DataModeling: useState initial values, both effects
\* scheduled
Mount ==
    /\ pc = "ready"
    /\ pc' = "modeling"
    /\ screen' = [NoScreen EXCEPT !.baseTableId = tables.keys[1],
                                  !.effects = {"suggest", "preview"}]
    /\ UNCHANGED engine

\* the body of the preview effect for the rendered baseTableId and joins: the
\* DataSet handed to setPreviewData, none when executeDataModel throws
Preview(baseTableId, joins) ==
    LET call == executeDataModel(tables, heap,
                                 [baseTableId |-> baseTableId, joins |-> joins])
    IN  IF call.result.status = "ok"
        THEN Some(DataSetValue(call.heap, call.result))
        ELSE None

\* setX(value), queued until the next render
Update(hook, value) == [hook |-> hook, value |-> value]

\* the effects scheduled by the last render run, in the order of their
\* declaration, with the values of that render
RunEffects ==
    /\ pc = "modeling"
    /\ screen.effects # {}
    /\ \E p \in {Preview(screen.baseTableId, screen.joins)} :
           screen' = [screen EXCEPT
               !.effects = {},
               !.queue = @ \o (IF "suggest" \in screen.effects
                               THEN <<Update("joins",
                                             suggestJoins(screen.baseTableId, tables))>>
                               ELSE <<>>)
                           \o (IF "preview" \in screen.effects /\ p # None
                               THEN <<Update("previewData", p)>>
                               ELSE <<>>)]
    /\ UNCHANGED <<pc, engine>>

RECURSIVE Reduce(_, _, _)
\* the state after the first i queued updates
Reduce(st, queue, i) ==
    IF i = 0 THEN st
    ELSE [Reduce(st, queue, i - 1) EXCEPT ![queue[i].hook] = queue[i].value]

\* a render with the queued updates; an effect is scheduled when one of its
\* dependencies is another value than at the render before (a queued array
\* of joins is another value than the one before it)
Render ==
    /\ pc = "modeling"
    /\ screen.effects = {}
    /\ screen.queue # <<>>
    /\ \E st \in {Reduce(screen, screen.queue, Len(screen.queue))} :
           screen' = [st EXCEPT
               !.queue = <<>>,
               !.effects =
                   (IF st.baseTableId # screen.baseTableId
                    THEN {"suggest", "preview"} ELSE {})
                   \cup (IF \E i \in 1..Len(screen.queue) : screen.queue[i].hook = "joins"
                         THEN {"preview"} ELSE {})]
    /\ UNCHANGED <<pc, engine>>

\* an event handler of the rendered screen queues an update
Edit(hook, value) ==
    /\ pc = "modeling"
    /\ screen.edits < MaxEdits
    /\ screen' = [screen EXCEPT !.queue = Append(@, Update(hook, value)),
                                !.edits = @ + 1]
    /\ UNCHANGED <<pc, engine>>

\* onChange of the base table selector
setBaseTableId(id) ==
    /\ HasKey(tables, id)
    /\ id # screen.baseTableId
    /\ Edit("baseTableId", id)

\* lines 44-59
addJoin ==
    \E potentialTables \in
          {SelectSeq(tables.keys,
                     LAMBDA id : /\ id # screen.baseTableId
                                 /\ \A j \in 1..Len(screen.joins) :
                                       screen.joins[j].rightTableId # id)} :
        /\ potentialTables # <<>>
        /\ Edit("joins",
                Append(screen.joins,
                       [id |-> FreshId(screen.edits + 2),
                        rightTableId |-> potentialTables[1],
                        leftColumn |-> TableOf(tables, screen.baseTableId).columns[1].name,
                        rightColumn |-> TableOf(tables, potentialTables[1]).columns[1].name,
                        joinType |-> "LEFT"]))

\* lines 61-63
removeJoin(id) ==
    /\ \E j \in 1..Len(screen.joins) : screen.joins[j].id = id
    /\ Edit("joins", SelectSeq(screen.joins, LAMBDA j : j.id # id))

\* the changes the selectors of a join's card offer
JoinUpdates(join) ==
    {u \in {[joinType |-> t] : t \in {"LEFT", "INNER"}}
           \cup {[rightTableId |-> id] : id \in Range(tables.keys) \ {screen.baseTableId}}
           \cup {[leftColumn |-> TableOf(tables, screen.baseTableId).columns[c].name] :
                    c \in 1..Len(TableOf(tables, screen.baseTableId).columns)}
           \cup {[rightColumn |-> TableOf(tables, join.rightTableId).columns[c].name] :
                    c \in 1..Len(TableOf(tables, join.rightTableId).columns)} :
        u @@ join # join}

\* lines 65-67
updateJoin(id, updates) ==
    /\ \E j \in 1..Len(screen.joins) :
          screen.joins[j].id = id /\ updates \in JoinUpdates(screen.joins[j])
    /\ Edit("joins",
            [j \in 1..Len(screen.joins) |->
                IF screen.joins[j].id = id THEN updates @@ screen.joins[j]
                ELSE screen.joins[j]])

\* lines 69-77: the click; the timer holds the rendered previewData (kept
\* here with the selection rendered with it)
handleConfirm ==
    /\ pc = "modeling"
    /\ screen.timer = None
    /\ screen.previewData # None
    /\ screen' = [screen EXCEPT !.timer = Some([previewData |-> screen.previewData[1],
                                                baseTableId |-> screen.baseTableId,
                                                joins |-> screen.joins])]
    /\ UNCHANGED <<pc, engine>>

\* the timer fires: onModelComplete(previewData)
Deliver ==
    /\ pc = "modeling"
    /\ screen.timer # None
    /\ pc' = "delivered"
    /\ screen' = [screen EXCEPT !.timer = None, !.delivered = screen.timer]
    /\ UNCHANGED engine

Next ==
    \/ ProcessFile
    \/ \E b \in SuggestBases : Suggest(b)
    \/ \E m \in Models : ExecStart(m)
    \/ ExecSuggested
    \/ ExecJoin
    \/ ExecReturn
    \/ Rerun
    \/ Discard

Spec == Init /\ [][Next]_vars

\* the profiling of an uploaded sheet
ProfileNext == ProcessFile

ProfileSpec == ProfileInit /\ [][ProfileNext]_vars

\* the suggestions for an uploaded workbook
SuggestNext ==
    \/ ProcessFile
    \/ \E b \in SuggestBases : Suggest(b)

SuggestSpec == KeyedInit /\ [][SuggestNext]_vars

\* the execution of a model over a chain of tables
ChainNext ==
    \/ ProcessFile
    \/ \E m \in LinkedModels : ExecStart(m)
    \/ ExecJoin
    \/ ExecReturn

ChainSpec == LinkedInit /\ [][ChainNext]_vars

\* the modeling screen
ScreenNext ==
    \/ ProcessFile
    \/ Mount
    \/ RunEffects
    \/ Render
    \/ \E id \in Range(tables.keys) : setBaseTableId(id)
    \/ addJoin
    \/ \E j \in 1..Len(screen.joins) : removeJoin(screen.joins[j].id)
    \/ \E j \in 1..Len(screen.joins) :
          \E updates \in JoinUpdates(screen.joins[j]) :
              updateJoin(screen.joins[j].id, updates)
    \/ handleConfirm
    \/ Deliver

ScreenSpec == ScreenInit /\ [][ScreenNext]_vars

----------------------------------------------------------------------------
(* Vocabulary of the properties *)

\* execute has returned a DataSet
Returned == pc = "returned" /\ out.status = "ok"

\* an iteration of the join loop has just run, over join LastJoin
Stepped == pc = "exec" /\ ji > 1
LastJoin == model.joins[ji - 1]

BaseTable == TableOf(tables, model.baseTableId)

\* the join's right table is in the collection, so the join is not skipped
Applied(join) == HasKey(tables, join.rightTableId)
RightTable(join) == TableOf(tables, join.rightTableId)

\* the names a join writes into the rows
WrittenNames(join) ==
    {PrefixedName(RightTable(join).tableName, RightTable(join).columns[c].name) :
        c \in 1..Len(RightTable(join).columns)}

\* the right rows whose key has the same string form as the left value of o
Hits(o, join) ==
    {r \in 1..Len(RightTable(join).rows) :
        String(Get(heap[RightTable(join).rows[r]], join.rightColumn))
            = String(Get(o, join.leftColumn))}

\* new carries right row number r of the join's table under the prefixed names
CarriesRight(new, join, r) ==
    \A c \in 1..Len(RightTable(join).columns) :
        LET name == RightTable(join).columns[c].name
        IN  Get(new, PrefixedName(RightTable(join).tableName, name))
                = Get(heap[RightTable(join).rows[r]], name)

\* new is old with nothing but the join's own names written
SameRow(new, old, join) ==
    \A c \in Range(old.keys) \ WrittenNames(join) : Get(new, c) = Get(old, c)

\* the positions of the probed rows that have a hit, in order
MatchedPositions(join) ==
    LET Hit(i) == Hits(heap[probedRows[i]], join) # {}
    IN  Filter([i \in 1..Len(probedRows) |-> i], Hit, 1)

----------------------------------------------------------------------------
(* Properties of executeDataModel *)

C2_ColumnNamesUnique ==
    Returned =>
        \A i, j \in 1..Len(out.columns) :
            i # j => out.columns[i].name # out.columns[j].name

\* C3: the table collection and its row objects are what processFile made of
\* the workbook, whatever analyze, suggest and execute calls came since, and
\* no row of an accumulator or of a result is a row object of a table
C3_InputsUntouched ==
    pc \in {"ready", "suggested", "exec", "returned"} =>
        /\ tables = tables0.tables
        /\ SubSeq(heap, 1, SourceCount) = tables0.heap
        /\ \A t \in 1..Len(workbook) :
              Len(workbook[t].rows) > 0 =>
                 LET rows == TableOf(tables, workbook[t].name).rows
                 IN  [i \in 1..Len(rows) |-> heap[rows[i]]] = workbook[t].rows
        /\ \A i \in 1..Len(resultRows) : resultRows[i] > SourceCount
        /\ Returned => \A i \in 1..Len(out.rows) : out.rows[i] > SourceCount

C3_Witness ==
    /\ Returned /\ prev # Pending
    /\ Len(model.joins) > 0 /\ model.joins[1].id = FreshId(1)
    /\ out.rowCount > 1

\* C4: a call returns the same value as the call before it with the same
\* model, and the same value as that model's call on the collection as
\* loaded, whatever other models were executed in between
C4_Idempotent ==
    pc = "returned" =>
        /\ prev # Pending => DataSetValue(heap, out) = prev
        /\ LET first == executeDataModel(tables0.tables, tables0.heap, model)
           IN  DataSetValue(heap, out) = DataSetValue(first.heap, first.result)

C4_Witness ==
    /\ Returned /\ prev # Pending
    /\ \E i \in 1..Len(model.joins) : Applied(model.joins[i])
    /\ out.rowCount > 0

WithoutMissing(m) ==
    [m EXCEPT !.joins = Filter(@, Applied, 1)]

C7_LeftJoinNullFill ==
    (Stepped /\ Applied(LastJoin) /\ LastJoin.joinType = "LEFT") =>
        /\ Len(resultRows) = Len(probedRows)
        /\ \A i \in 1..Len(probedRows) :
              LET old == heap[probedRows[i]]
                  new == heap[resultRows[i]]
              IN  /\ SameRow(new, old, LastJoin)
                  /\ \A name \in WrittenNames(LastJoin) : HasKey(new, name)
                  /\ IF Hits(old, LastJoin) = {}
                     THEN \A name \in WrittenNames(LastJoin) : Get(new, name) = Null
                     ELSE \E r \in Hits(old, LastJoin) : CarriesRight(new, LastJoin, r)

C7_Witness ==
    /\ Stepped /\ Applied(LastJoin) /\ LastJoin.joinType = "LEFT"
    /\ \E i \in 1..Len(probedRows) : Hits(heap[probedRows[i]], LastJoin) = {}
    /\ \E i \in 1..Len(probedRows) : Hits(heap[probedRows[i]], LastJoin) # {}

\* C8: an INNER join step outputs exactly the accumulator rows that have a
\* hit, in order, and no row without a hit for an applied INNER join is in
\* the accumulator of any later step
C8_InnerJoinFilters ==
    /\ (Stepped /\ Applied(LastJoin) /\ LastJoin.joinType = "INNER") =>
          LET matched == MatchedPositions(LastJoin)
          IN  /\ Len(resultRows) = Len(matched)
              /\ \A k \in 1..Len(matched) :
                    SameRow(heap[resultRows[k]], heap[probedRows[matched[k]]], LastJoin)
    /\ pc = "exec" =>
          \A k \in 1..(ji - 1) :
              (Applied(model.joins[k]) /\ model.joins[k].joinType = "INNER") =>
                  \A i \in 1..Len(resultRows) :
                      Hits(heap[resultRows[i]], model.joins[k]) # {}

C8_Witness ==
    /\ pc = "exec" /\ ji = 3
    /\ Applied(model.joins[1]) /\ model.joins[1].joinType = "INNER"
    /\ Applied(model.joins[2]) /\ model.joins[2].joinType = "LEFT"
    /\ 0 < Len(resultRows) /\ Len(resultRows) < BaseTable.rowCount

\* a column of the base table that tells its rows apart
IdentityColumn ==
    CHOOSE c \in Range(heap[BaseTable.rows[1]].keys) :
        \A i, j \in 1..Len(BaseTable.rows) :
            i # j => Get(heap[BaseTable.rows[i]], c) # Get(heap[BaseTable.rows[j]], c)

\* the last right row of the join whose key has the string form of o's
LastHit(o, join) ==
    CHOOSE r \in Hits(o, join) : \A q \in Hits(o, join) : q <= r

C10_KeysComparedAsText ==
    (Stepped /\ Applied(LastJoin)) =>
        \A i \in 1..Len(probedRows) :
            LET old == heap[probedRows[i]]
            IN  Hits(old, LastJoin) # {} =>
                    \E k \in 1..Len(resultRows) :
                        /\ SameRow(heap[resultRows[k]], old, LastJoin)
                        /\ \E r \in Hits(old, LastJoin) :
                              CarriesRight(heap[resultRows[k]], LastJoin, r)

\* row o meets a right row whose key is of another type and the same text
CrossTyped(o, join, leftValue, rightValue) ==
    /\ Get(o, join.leftColumn) = leftValue
    /\ \A r \in 1..Len(RightTable(join).rows) :
          Get(heap[RightTable(join).rows[r]], join.rightColumn) = rightValue

C10_Witness ==
    /\ Stepped /\ Applied(LastJoin)
    /\ Len(resultRows) = Len(probedRows)
    /\ \/ /\ \E i \in 1..Len(probedRows) :
                CrossTyped(heap[probedRows[i]], LastJoin, Num(7), Str("7"))
          /\ \A i \in 1..Len(probedRows) :
                Get(heap[probedRows[i]], LastJoin.leftColumn) = Num(7)
       \/ /\ \E i \in 1..Len(probedRows) :
                CrossTyped(heap[probedRows[i]], LastJoin, Str("7"), Num(7))
          /\ \A i \in 1..Len(probedRows) :
                Get(heap[probedRows[i]], LastJoin.leftColumn) = Str("7")
    /\ LastJoin.joinType = "INNER"
    /\ Len(probedRows) = MaxRows

----------------------------------------------------------------------------
(* Vocabulary of the properties of the profiler *)

\* processFile has resolved with a table collection
Loaded == pc \notin {"upload", "failed"}

\* the sheets that became tables
Sheets == {t \in 1..Len(workbook) : Len(workbook[t].rows) > 0}
SheetTable(t) == TableOf(tables, workbook[t].name)
ColumnsOf(t) == 1..Len(SheetTable(t).columns)
Column(t, c) == SheetTable(t).columns[c]

\* the cell of row i of sheet t under column c
Cell(t, c, i) == Get(workbook[t].rows[i], Column(t, c).name)

\* the rows of sheet t that hold a value under column c
PresentRows(t, c) ==
    {i \in 1..Len(workbook[t].rows) : Cell(t, c, i) \notin {Null, Undefined, Str("")}}

\* the number of present values of the column counted under a type
Share(t, c, type) ==
    Cardinality({i \in PresentRows(t, c) : Classify(Cell(t, c, i)) = type})

----------------------------------------------------------------------------
(* Properties of analyzeColumn and analyzeSheetData *)

\* C13: for every profiled column nullCount plus the number of rows holding
\* a present value is the row count, and uniqueCount is at most the number of
\* rows holding a present value
C13_CountsAddUp ==
    Loaded =>
        \A t \in Sheets : \A c \in ColumnsOf(t) :
            /\ Column(t, c).nullCount + Cardinality(PresentRows(t, c))
                  = Len(workbook[t].rows)
            /\ SheetTable(t).rowCount = Len(workbook[t].rows)
            /\ Column(t, c).uniqueCount <= Cardinality(PresentRows(t, c))

C13_Witness ==
    /\ Loaded
    /\ \E t \in Sheets : \E c \in ColumnsOf(t) :
          /\ \E i \in 1..Len(workbook[t].rows) : Cell(t, c, i) = Str("")
          /\ Column(t, c).nullCount = 1
          /\ Column(t, c).uniqueCount = 1
          /\ Cardinality(PresentRows(t, c)) = 2

\* the type the shares of a column's present values are said to decide
ShareType(t, c) ==
    LET n == Cardinality(PresentRows(t, c))
    IN  IF Share(t, c, "Date") * 10 >= n * 8 THEN "Date"
        ELSE IF Share(t, c, "Number") * 10 >= n * 8 THEN "Number"
        ELSE IF Share(t, c, "Boolean") * 10 >= n * 9 THEN "Boolean"
        ELSE "String"

\* C14: a column with present values is DATE when at least 80% of them were
\* classified DATE, else NUMBER when at least 80% were classified NUMBER, else
\* BOOLEAN when at least 90% were classified BOOLEAN, else STRING
C14_TypeByShare ==
    Loaded =>
        \A t \in Sheets : \A c \in ColumnsOf(t) :
            PresentRows(t, c) # {} => Column(t, c).type = ShareType(t, c)

\* C17: a column without a present value is a STRING column with nullCount
\* the row count, uniqueCount 0, no example value and no min, max, sum, mean
C17_AllAbsentColumn ==
    Loaded =>
        \A t \in Sheets : \A c \in ColumnsOf(t) :
            PresentRows(t, c) = {} =>
                /\ Column(t, c).type = "String"
                /\ Column(t, c).nullCount = Len(workbook[t].rows)
                /\ Column(t, c).uniqueCount = 0
                /\ Column(t, c).exampleValues = <<>>
                /\ Column(t, c).min = <<>> /\ Column(t, c).max = <<>>
                /\ Column(t, c).sum = <<>> /\ Column(t, c).mean = <<>>

C17_Witness ==
    /\ Loaded
    /\ \E t \in Sheets : \E c, d \in ColumnsOf(t) :
          /\ PresentRows(t, c) = {} /\ PresentRows(t, d) # {}
          /\ Len(workbook[t].rows) = MaxWide
          /\ \E i, j \in 1..Len(workbook[t].rows) :
                Cell(t, c, i) = Null /\ Cell(t, c, j) = Null /\ i # j

\* the rows of a column whose present value coerces to a finite number
FiniteRows(t, c) ==
    {i \in PresentRows(t, c) : Number(Cell(t, c, i)).s = ""}

RECURSIVE Total(_, _, _)
\* the sum of the finite numbers of the column over the rows in S
Total(t, c, S) ==
    IF S = {} THEN 0
    ELSE LET i == CHOOSE j \in S : TRUE
         IN  Number(Cell(t, c, i)).n + Total(t, c, S \ {i})

Least(t, c) ==
    CHOOSE m \in {Number(Cell(t, c, i)).n : i \in FiniteRows(t, c)} :
        \A i \in FiniteRows(t, c) : m <= Number(Cell(t, c, i)).n

Greatest(t, c) ==
    CHOOSE m \in {Number(Cell(t, c, i)).n : i \in FiniteRows(t, c)} :
        \A i \in FiniteRows(t, c) : m >= Number(Cell(t, c, i)).n

\* C15: the min, max, sum and mean of a NUMBER column are those of its present
\* values that coerce to a finite number, and are absent when there is none
C15_StatsOverFinite ==
    Loaded =>
        \A t \in Sheets : \A c \in ColumnsOf(t) :
            Column(t, c).type = "Number" =>
                IF FiniteRows(t, c) = {}
                THEN /\ Column(t, c).min = <<>> /\ Column(t, c).max = <<>>
                     /\ Column(t, c).sum = <<>> /\ Column(t, c).mean = <<>>
                ELSE /\ Column(t, c).min = <<Num(Least(t, c))>>
                     /\ Column(t, c).max = <<Num(Greatest(t, c))>>
                     /\ Column(t, c).sum = <<Num(Total(t, c, FiniteRows(t, c)))>>
                     /\ Column(t, c).mean = <<<<Num(Total(t, c, FiniteRows(t, c))),
                                               Cardinality(FiniteRows(t, c))>>>>

\* x * k for a count k > 0
Times(x, k) == IF x.s = "" THEN Num(x.n * k) ELSE x

\* C16: a NUMBER column with a valid numeric value has min <= mean <= max and
\* sum = mean * count, that is min * count <= sum <= max * count for the sum
\* and the count the mean is the quotient of
C16_MeanBetweenMinAndMax ==
    Loaded =>
        \A t \in Sheets : \A c \in ColumnsOf(t) :
            (Column(t, c).type = "Number" /\ FiniteRows(t, c) # {}) =>
                /\ Column(t, c).mean # <<>> /\ Column(t, c).sum # <<>>
                /\ Column(t, c).min # <<>> /\ Column(t, c).max # <<>>
                /\ Column(t, c).mean[1][1] = Column(t, c).sum[1]
                /\ LessEq(Times(Column(t, c).min[1], Column(t, c).mean[1][2]),
                          Column(t, c).sum[1])
                /\ LessEq(Column(t, c).sum[1],
                          Times(Column(t, c).max[1], Column(t, c).mean[1][2]))

\* the columns said to be dimensions
SaidDimensions(t) ==
    {c \in ColumnsOf(t) :
        /\ Column(t, c).type = "String"
        /\ 1 < Column(t, c).uniqueCount /\ Column(t, c).uniqueCount <= 100
        /\ Column(t, c).uniqueCount * 10 < SheetTable(t).rowCount * 9}

\* the uniqueCount of the column of a name
CountOf(t, name) ==
    Column(t, CHOOSE c \in ColumnsOf(t) : Column(t, c).name = name).uniqueCount

\* C18: dimensions are exactly the STRING columns with 1 < uniqueCount <= 100
\* and uniqueCount < 0.9 * rowCount, each once, ascending by uniqueCount
C18_DimensionsNeedTwoValues ==
    Loaded =>
        \A t \in Sheets :
            LET dims == SheetTable(t).dimensions
            IN  /\ Range(dims) = {Column(t, c).name : c \in SaidDimensions(t)}
                /\ Len(dims) = Cardinality(SaidDimensions(t))
                /\ \A i, j \in 1..Len(dims) :
                      i < j => CountOf(t, dims[i]) <= CountOf(t, dims[j])

NumberColumns(t) == {c \in ColumnsOf(t) : Column(t, c).type = "Number"}

\* uniqueCount * (1 - nullCount / rowCount), times rowCount
Score(t, c) ==
    Column(t, c).uniqueCount * (SheetTable(t).rowCount - Column(t, c).nullCount)

\* C19: primaryMeasureColumn is the NUMBER column of greatest score, the
\* earliest in column order among those of greatest score, and is undefined
\* when no column is a NUMBER column
C19_MeasureByScore ==
    Loaded =>
        \A t \in Sheets :
            IF NumberColumns(t) = {}
            THEN SheetTable(t).primaryMeasureColumn = <<>>
            ELSE \E c \in NumberColumns(t) :
                    /\ SheetTable(t).primaryMeasureColumn = <<Column(t, c).name>>
                    /\ \A d \in NumberColumns(t) :
                          \/ Score(t, c) > Score(t, d)
                          \/ Score(t, c) = Score(t, d) /\ c <= d

C19_Witness ==
    /\ Loaded
    /\ \E t \in Sheets :
          /\ NumberColumns(t) = {1, 2}
          /\ Score(t, 1) = Score(t, 2)
          /\ Column(t, 1).nullCount > 0
          /\ Column(t, 1).uniqueCount > 1
          /\ SheetTable(t).primaryMeasureColumn = <<Column(t, 1).name>>

----------------------------------------------------------------------------
(* Properties of the returned DataSet and of suggestJoins *)

\* a right table's profile under its prefixed name
Prefixed(table, col) == [col EXCEPT !.name = table.tableName \o "." \o col.name]

RECURSIVE SaidColumns(_)
\* the columns said to be returned for the first i joins of the model
SaidColumns(i) ==
    IF i = 0 THEN BaseTable.columns
    ELSE SaidColumns(i - 1) \o
         (IF Applied(model.joins[i])
          THEN [c \in 1..Len(RightTable(model.joins[i]).columns) |->
                   Prefixed(RightTable(model.joins[i]),
                            RightTable(model.joins[i]).columns[c])]
          ELSE <<>>)

RECURSIVE SaidJoinedDimensions(_)
\* the dimensions said to be returned for the first i joins of the model
SaidJoinedDimensions(i) ==
    IF i = 0 THEN BaseTable.dimensions
    ELSE SaidJoinedDimensions(i - 1) \o
         (IF Applied(model.joins[i])
          THEN [d \in 1..Len(RightTable(model.joins[i]).dimensions) |->
                   RightTable(model.joins[i]).tableName \o "."
                       \o RightTable(model.joins[i]).dimensions[d]]
          ELSE <<>>)

\* C11: the returned columns are the base columns followed, join by applied
\* join in model order, by the right table's profiles renamed with the table
\* name and a dot; the dimensions likewise; rowCount is the number of rows
C11_ColumnsAndDimensionsConcatenated ==
    Returned =>
        /\ out.columns = SaidColumns(Len(model.joins))
        /\ out.dimensions = SaidJoinedDimensions(Len(model.joins))
        /\ out.rowCount = Len(out.rows)

C11_Witness ==
    /\ Returned
    /\ out.rowCount > 0
    /\ \E i \in 1..Len(model.joins) :
          /\ Applied(model.joins[i])
          /\ RightTable(model.joins[i]).dimensions # <<>>
    /\ Len(out.columns) > Len(BaseTable.columns)

\* C12: the returned primaryDateColumn and primaryMeasureColumn are the base
\* table's, whatever tables are joined in and whatever rows are dropped
C12_PrimaryColumnsFromBase ==
    Returned =>
        /\ out.primaryDateColumn = BaseTable.primaryDateColumn
        /\ out.primaryMeasureColumn = BaseTable.primaryMeasureColumn

C12_Witness ==
    /\ Returned
    /\ out.rowCount < BaseTable.rowCount
    /\ out.primaryMeasureColumn # <<>>
    /\ \E i \in 1..Len(model.joins) :
          /\ Applied(model.joins[i])
          /\ RightTable(model.joins[i]).primaryMeasureColumn # <<>>
          /\ RightTable(model.joins[i]).primaryMeasureColumn
                # BaseTable.primaryMeasureColumn

\* C20: the suggested joins are LEFT joins to tables of the collection other
\* than the base table, no two of them to the same table
C20_SuggestionsPerOtherTable ==
    pc = "suggested" =>
        /\ \A i \in 1..Len(model.joins) :
              /\ model.joins[i].joinType = "LEFT"
              /\ model.joins[i].rightTableId # model.baseTableId
              /\ HasKey(tables, model.joins[i].rightTableId)
        /\ \A i, j \in 1..Len(model.joins) :
              i # j => model.joins[i].rightTableId # model.joins[j].rightTableId
        /\ Len(model.joins) <= Len(tables.keys)
        /\ HasKey(tables, model.baseTableId) => Len(model.joins) < Len(tables.keys)

C20_Witness ==
    /\ pc = "suggested"
    /\ Len(model.joins) = 1
    /\ model.baseTableId = "Customers"
    /\ Len(tables.keys) = 2

----------------------------------------------------------------------------
(* Properties of the two strategies of suggestJoins *)

\* suggestJoins has run for a base table of the collection
Suggested == pc = "suggested" /\ HasKey(tables, model.baseTableId)

\* the tables other than the base table
Others == {id \in Range(tables.keys) : id # model.baseTableId}

\* the suggestions that name table id
SuggestionsFor(id) == {i \in 1..Len(model.joins) : model.joins[i].rightTableId = id}

\* the <<base column, right column>> positions whose names are equal ignoring
\* case and whose right column has a uniqueness ratio above 0.9
QualifyingPairs(id) ==
    {p \in (1..Len(BaseTable.columns)) \X (1..Len(TableOf(tables, id).columns)) :
        /\ toLowerCase(BaseTable.columns[p[1]].name)
              = toLowerCase(TableOf(tables, id).columns[p[2]].name)
        /\ TableOf(tables, id).columns[p[2]].uniqueCount * 10
              > TableOf(tables, id).rowCount * 9}

\* the last pair of P with the base columns iterated outside the right ones
LastPair(P) ==
    CHOOSE p \in P : \A q \in P : q[1] < p[1] \/ (q[1] = p[1] /\ q[2] <= p[2])

\* suggestion i joins base column b to column d of table id
Joins(i, id, b, d) ==
    /\ model.joins[i].leftColumn = BaseTable.columns[b].name
    /\ model.joins[i].rightColumn = TableOf(tables, id).columns[d].name

\* C21: for a table with qualifying pairs the one suggestion is the last
\* qualifying pair, base columns outside, right columns inside; for a table
\* without one no suggestion joins two names that are equal ignoring case
C21_NameMatchLastPairWins ==
    Suggested =>
        \A id \in Others :
            IF QualifyingPairs(id) # {}
            THEN /\ Cardinality(SuggestionsFor(id)) = 1
                 /\ \A i \in SuggestionsFor(id) :
                       Joins(i, id, LastPair(QualifyingPairs(id))[1],
                                    LastPair(QualifyingPairs(id))[2])
            ELSE \A i \in SuggestionsFor(id) :
                    toLowerCase(model.joins[i].leftColumn)
                        # toLowerCase(model.joins[i].rightColumn)

C21_Witness ==
    /\ Suggested
    /\ \E id \in Others :
          /\ Cardinality(QualifyingPairs(id)) > 1
          /\ \E p \in QualifyingPairs(id), i \in SuggestionsFor(id) :
                /\ ~Joins(i, id, p[1], p[2])
                /\ p[2] > LastPair(QualifyingPairs(id))[2]

\* the names the key convention looks for in table id
KeyNames(id) ==
    {"id", toLowerCase(TableOf(tables, id).tableName) \o "_id",
     DropLast(toLowerCase(TableOf(tables, id).tableName)) \o "_id"}

\* the columns of table id of such a name and a uniqueness ratio above 0.9
UniqueKeyColumns(id) ==
    {d \in 1..Len(TableOf(tables, id).columns) :
        /\ toLowerCase(TableOf(tables, id).columns[d].name) \in KeyNames(id)
        /\ TableOf(tables, id).columns[d].uniqueCount * 10
              > TableOf(tables, id).rowCount * 9}

\* the base columns whose name contains the table's or is the foreign-key name
ForeignKeyColumns(id) ==
    {b \in 1..Len(BaseTable.columns) :
        \/ includes(toLowerCase(BaseTable.columns[b].name),
                    toLowerCase(TableOf(tables, id).tableName))
        \/ toLowerCase(BaseTable.columns[b].name)
              = DropLast(toLowerCase(TableOf(tables, id).tableName)) \o "_id"}

\* C22: a table without a qualifying pair, with a near-unique column of a key
\* name and a matching base column, gets a LEFT suggestion from such a base
\* column to such a key column
C22_KeyConventionFindsUniqueKey ==
    Suggested =>
        \A id \in Others :
            (/\ QualifyingPairs(id) = {}
             /\ UniqueKeyColumns(id) # {}
             /\ ForeignKeyColumns(id) # {}) =>
                \E i \in SuggestionsFor(id) :
                    /\ model.joins[i].joinType = "LEFT"
                    /\ \E b \in ForeignKeyColumns(id), d \in UniqueKeyColumns(id) :
                          Joins(i, id, b, d)

\* C27: a table with a qualifying pair is suggested once, by a qualifying
\* pair, whatever the key convention would find; a table without one is
\* suggested by the key convention or not at all
C27_NameMatchBeforeKeyConvention ==
    Suggested =>
        \A id \in Others : \A i \in SuggestionsFor(id) :
            /\ SuggestionsFor(id) = {i}
            /\ IF QualifyingPairs(id) # {}
               THEN \E p \in QualifyingPairs(id) : Joins(i, id, p[1], p[2])
               ELSE \E b \in ForeignKeyColumns(id), d \in UniqueKeyColumns(id) :
                       Joins(i, id, b, d)

C27_Witness ==
    /\ Suggested
    /\ \E id \in Others : \E i \in SuggestionsFor(id) :
          /\ QualifyingPairs(id) # {}
          /\ UniqueKeyColumns(id) # {} /\ ForeignKeyColumns(id) # {}
          /\ \A b \in ForeignKeyColumns(id), d \in UniqueKeyColumns(id) :
                ~Joins(i, id, b, d)

----------------------------------------------------------------------------
(* Properties of processFile *)

\* the names of the sheets among the first i that have a row, in sheet order
RECURSIVE SheetsWithRows(_)
SheetsWithRows(i) ==
    IF i = 0 THEN <<>>
    ELSE SheetsWithRows(i - 1)
         \o (IF Len(workbook[i].rows) > 0 THEN <<workbook[i].name>> ELSE <<>>)

\* C23: the collection holds a table for each sheet with a row and for no
\* other, each with rowCount >= 1; a workbook without any row fails, and
\* only such a workbook, leaving no collection
C23_EmptySheetsLeftOut ==
    /\ Loaded =>
          /\ tables.keys = SheetsWithRows(Len(workbook))
          /\ \A id \in Range(tables.keys) :
                /\ TableOf(tables, id).rowCount >= 1
                /\ TableOf(tables, id).rowCount = Len(TableOf(tables, id).rows)
    /\ pc = "failed" => (SheetsWithRows(Len(workbook)) = <<>> /\ tables = NoTables)
    /\ (pc # "upload" /\ SheetsWithRows(Len(workbook)) = <<>>) => pc = "failed"

C23_Witness ==
    /\ Loaded
    /\ Len(workbook[1].rows) = 0
    /\ tables.keys = <<workbook[2].name>>
    /\ TableOf(tables, workbook[2].name).rowCount = MaxRows

----------------------------------------------------------------------------
(* Properties of the rows of executeDataModel *)

\* the positions of the probed rows the last step made its output rows of
SourcePositions ==
    IF LastJoin.joinType = "LEFT" THEN [i \in 1..Len(probedRows) |-> i]
    ELSE MatchedPositions(LastJoin)

\* C24: every output row of a join step holds, under every name its
\* accumulator row had before the step, the value it had
C24_StepKeepsExistingValues ==
    (Stepped /\ Applied(LastJoin)) =>
        /\ Len(resultRows) = Len(SourcePositions)
        /\ \A k \in 1..Len(resultRows) :
              \A c \in Range(heap[probedRows[SourcePositions[k]]].keys) :
                  Get(heap[resultRows[k]], c)
                      = Get(heap[probedRows[SourcePositions[k]]], c)

\* row object o under the names of the base table's columns
BaseCells(o) ==
    [c \in 1..Len(BaseTable.columns) |-> Get(o, BaseTable.columns[c].name)]

\* the strictly increasing maps of 1..k into 1..n
Increasing(k, n) ==
    {f \in [1..k -> 1..n] : \A i, j \in 1..k : i < j => f[i] < f[j]}

\* C28: the returned rows under the base table's column names are a
\* subsequence of the base rows, and are the base rows, position by position,
\* when every applied join is a LEFT join
C28_BaseRowsInOrder ==
    Returned =>
        /\ \E f \in Increasing(Len(out.rows), Len(BaseTable.rows)) :
              \A k \in 1..Len(out.rows) :
                  BaseCells(heap[out.rows[k]]) = BaseCells(heap[BaseTable.rows[f[k]]])
        /\ (\A i \in 1..Len(model.joins) :
               Applied(model.joins[i]) => model.joins[i].joinType = "LEFT")
           => /\ Len(out.rows) = Len(BaseTable.rows)
              /\ \A k \in 1..Len(out.rows) :
                    BaseCells(heap[out.rows[k]]) = BaseCells(heap[BaseTable.rows[k]])

----------------------------------------------------------------------------
(* Properties of joins in sequence and of their keys *)

\* the joins of the model applied before the last step's
Earlier == {j \in 1..(ji - 2) : Applied(model.joins[j])}

\* the value join j's table holds for row o under the column that the
\* prefixed name stands for, in the last right row that o hits
MergedValue(o, j, prefixed) ==
    LET table == RightTable(model.joins[j])
        c == CHOOSE c \in 1..Len(table.columns) :
                 PrefixedName(table.tableName, table.columns[c].name) = prefixed
    IN  Get(heap[table.rows[LastHit(o, model.joins[j])]], table.columns[c].name)

\* C25: the rows a step probes have the base table's names and those written
\* by the joins applied before it, none of them is without a hit for an
\* earlier INNER join, and a left column written by an earlier join holds
\* what that join merged in (null where it had no hit) and is what the step
\* matches on
C25_JoinsInModelOrder ==
    (Stepped /\ Applied(LastJoin)) =>
        \A i \in 1..Len(probedRows) : \A old \in {heap[probedRows[i]]} :
            /\ Range(old.keys)
                  = Range(heap[BaseTable.rows[1]].keys)
                    \cup UNION {WrittenNames(model.joins[j]) : j \in Earlier}
            /\ \A j \in Earlier :
                  model.joins[j].joinType = "INNER" => Hits(old, model.joins[j]) # {}
            /\ \A j \in Earlier :
                  LastJoin.leftColumn \in WrittenNames(model.joins[j]) =>
                      /\ Get(old, LastJoin.leftColumn)
                            = IF Hits(old, model.joins[j]) = {} THEN Null
                              ELSE MergedValue(old, j, LastJoin.leftColumn)
                      /\ Hits(old, LastJoin) # {} =>
                            \E k \in 1..Len(resultRows) :
                                /\ SameRow(heap[resultRows[k]], old, LastJoin)
                                /\ CarriesRight(heap[resultRows[k]], LastJoin,
                                                LastHit(old, LastJoin))
                      /\ (Hits(old, LastJoin) = {} /\ LastJoin.joinType = "INNER") =>
                            \A k \in 1..Len(resultRows) :
                                Get(heap[resultRows[k]], "id") # Get(old, "id")

C25_Witness ==
    /\ Stepped /\ Applied(LastJoin) /\ LastJoin.joinType = "LEFT"
    /\ \E j \in Earlier :
          /\ LastJoin.leftColumn \in WrittenNames(model.joins[j])
          /\ \E i, k \in 1..Len(probedRows) :
                /\ Hits(heap[probedRows[i]], model.joins[j]) = {}
                /\ Hits(heap[probedRows[i]], LastJoin) # {}
                /\ Hits(heap[probedRows[k]], model.joins[j]) # {}
                /\ Hits(heap[probedRows[k]], LastJoin) # {}

\* the last step's join names a column that is not there
LeftColumnMissing == \A i \in 1..Len(probedRows) : ~HasKey(heap[probedRows[i]], LastJoin.leftColumn)
RightColumnMissing ==
    \A c \in 1..Len(RightTable(LastJoin).columns) :
        RightTable(LastJoin).columns[c].name # LastJoin.rightColumn

\* C26: a join that names a column the accumulator or the right table does
\* not have matches no row: a LEFT join keeps every row with null under the
\* prefixed names, an INNER join keeps none
C26_MissingColumnsMatchNothing ==
    (Stepped /\ Applied(LastJoin) /\ (LeftColumnMissing \/ RightColumnMissing)) =>
        IF LastJoin.joinType = "LEFT"
        THEN /\ Len(resultRows) = Len(probedRows)
             /\ \A k \in 1..Len(resultRows) : \A name \in WrittenNames(LastJoin) :
                   Get(heap[resultRows[k]], name) = Null
        ELSE resultRows = <<>>

\* the right rows of a join whose key is an empty cell or the text "null"
NullKeyed(join) ==
    {r \in 1..Len(RightTable(join).rows) :
        Get(heap[RightTable(join).rows[r]], join.rightColumn) \in {Null, Str("null")}}

\* C29: a probed row whose left value is null, when the right table has a
\* row keyed null or "null", is output under either join type, merged with
\* the last such right row
C29_AbsentKeysMatchAsText ==
    (Stepped /\ Applied(LastJoin)) =>
        \A i \in 1..Len(probedRows) : \A old \in {heap[probedRows[i]]} :
            (Get(old, LastJoin.leftColumn) = Null /\ NullKeyed(LastJoin) # {}) =>
                \E k \in 1..Len(resultRows) :
                    /\ SameRow(heap[resultRows[k]], old, LastJoin)
                    /\ \E r \in NullKeyed(LastJoin) :
                          /\ \A q \in NullKeyed(LastJoin) : q <= r
                          /\ CarriesRight(heap[resultRows[k]], LastJoin, r)
                          /\ \E name \in WrittenNames(LastJoin) :
                                Get(heap[resultRows[k]], name) # Null

C29_Witness ==
    /\ Stepped /\ Applied(LastJoin) /\ LastJoin.joinType = "INNER"
    /\ Len(resultRows) = MaxLinked
    /\ NullKeyed(LastJoin) # {}
    /\ \A r \in NullKeyed(LastJoin) :
          Get(heap[RightTable(LastJoin).rows[r]], LastJoin.rightColumn) = Str("null")
    /\ \E i \in 1..Len(probedRows) :
          Get(heap[probedRows[i]], LastJoin.leftColumn) = Null

----------------------------------------------------------------------------
(* Properties of the modeling screen *)

\* the effects have run and their updates are rendered
Settled == pc = "modeling" /\ screen.effects = {} /\ screen.queue = <<>>

\* C30: once the effects have run the preview is the result of execute for
\* the rendered base table and joins, and the DataSet a click hands over is
\* the result of execute for the base table and joins rendered at the click
C30_PreviewIsCurrent ==
    /\ Settled =>
          screen.previewData = Preview(screen.baseTableId, screen.joins)
    /\ \A given \in {screen.timer, screen.delivered} \ {None} :
          Some(given[1].previewData) = Preview(given[1].baseTableId, given[1].joins)

====
